---- MODULE Spec2Model ----
(***************************************************************************)
(* The reconciliation engine of the deployment-validation-operator:        *)
(* the validation cache (validationCache) and the GenericReconciler that   *)
(* lists every object of every kind, evaluates the objects whose revision  *)
(* it has not evaluated yet and reclaims the entries of vanished objects.  *)
(***************************************************************************)
EXTENDS Integers, Sequences, FiniteSets, TLC

\* ------------------------------------------------------------------ bounds
\* Revisions (resourceVersion) an object can be listed with: 1..MaxRev.
MaxRev == 2
\* Items of the one list of the pagination scenarios (PageSpec).
MaxItems == 3

\* -------------------------------------------------------- the cluster's API
ClusterKinds == {"ClusterRole", "Node"}
NamespacedKinds == {"Deployment"}
Kinds == ClusterKinds \cup NamespacedKinds
Namespaces == {"ns1", "ns2"}
Revisions == 1..MaxRev
\* validations.ValidationOutcome values the evaluation engine returns.
Outcomes == {"ObjectValid", "ObjectNeedsImprovement"}
\* The outcome currentObjects.store is given: the empty string.
NoOutcome == ""
\* An absent label, and a label value that is not a string.
NoLabel == "<absent>"
Malformed == "<not a string>"
AppLabels == {"a", "b"}

GroupOf(kind) ==
    CASE kind = "ClusterRole" -> "rbac.authorization.k8s.io"
      [] kind = "Deployment" -> "apps"
      [] OTHER -> ""
VersionOf(kind) == "v1"

\* metav1.APIResource, as the discovery query returns it.
APIResource(kind) ==
    [Group |-> GroupOf(kind), Version |-> VersionOf(kind), Kind |-> kind,
     Namespaced |-> kind \in NamespacedKinds]

\* gvkFromMetav1APIResource
gvkFromMetav1APIResource(resource) ==
    [Group |-> resource.Group, Version |-> resource.Version, Kind |-> resource.Kind]

\* The UID the API server gave an object: one per identity.
ObjUID(kind, namespace, name) ==
    "uid:" \o kind \o "/" \o namespace \o "/" \o ToString(name)
\* The UID of a namespace.
NsUID(namespace) == "uid:Namespace//" \o namespace

\* An unstructured object as a list call returns it.  meta is
\* metadata.labels.app, sel is spec.selector.matchLabels.app, convertible
\* says whether FromUnstructured accepts the object.
Object(kind, namespace, name, rev, meta, sel, convertible) ==
    [group |-> GroupOf(kind), version |-> VersionOf(kind), kind |-> kind,
     namespace |-> namespace, name |-> name, resourceVersion |-> rev,
     uid |-> ObjUID(kind, namespace, name), meta |-> meta, sel |-> sel,
     convertible |-> convertible]

\* ------------------------------------------------------------ validationCache
\* newValidationKey
newValidationKey(obj) ==
    [group |-> obj.group, version |-> obj.version, kind |-> obj.kind,
     namespace |-> obj.namespace, name |-> obj.name]

\* newValidationResource
newValidationResource(rscVer, uid, outcome) ==
    [uid |-> uid, version |-> rscVer, outcome |-> outcome]

\* The zero validationResource, which a failed map lookup yields.
ZeroResource == [uid |-> "", version |-> 0, outcome |-> NoOutcome]

\* newValidationCache: the empty map.
newValidationCache == [k \in {} |-> ZeroResource]

\* has
has(vc, key) == key \in DOMAIN vc

\* A variant of store that keeps the outcome of the entry it finds.
storeKeepingOutcome(vc, obj, outcome) ==
    LET key == newValidationKey(obj)
    IN [k \in (DOMAIN vc) \cup {key} |->
          IF k = key
          THEN newValidationResource(obj.resourceVersion, obj.uid,
                                     IF key \in DOMAIN vc THEN vc[key].outcome ELSE outcome)
          ELSE vc[k]]

\* store
store(vc, obj, outcome) ==
    LET key == newValidationKey(obj)
    IN [k \in (DOMAIN vc) \cup {key} |->
          IF k = key
          THEN newValidationResource(obj.resourceVersion, obj.uid, outcome)
          ELSE vc[k]]

\* drain
drain(vc) == newValidationCache

\* removeKey
removeKey(vc, key) == [k \in (DOMAIN vc) \ {key} |-> vc[k]]

\* remove
remove(vc, obj) == removeKey(vc, newValidationKey(obj))

\* retrieve
retrieve(vc, obj) ==
    LET key == newValidationKey(obj)
    IN [val |-> IF key \in DOMAIN vc THEN vc[key] ELSE ZeroResource,
        exists |-> key \in DOMAIN vc]

\* A variant of objectAlreadyValidated that leaves the entry of another revision
\* in the cache.
objectAlreadyValidatedKeepingStale(vc, obj) ==
    LET got == retrieve(vc, obj)
    IN [vc |-> vc,
        result |-> got.exists /\ got.val.version = obj.resourceVersion]

\* A variant of objectAlreadyValidated that finds no object validated.
objectAlreadyValidatedNever(vc, obj) ==
    [vc |-> IF retrieve(vc, obj).exists THEN remove(vc, obj) ELSE vc, result |-> FALSE]

\* A variant of objectAlreadyValidated that does not compare the revisions.
objectAlreadyValidatedAnyRevision(vc, obj) ==
    [vc |-> vc, result |-> retrieve(vc, obj).exists]

\* objectAlreadyValidated: the answer, and the cache as the call leaves it.
objectAlreadyValidated(vc, obj) ==
    LET got == retrieve(vc, obj)
        storedResourceVersion == got.val.version
    IN IF ~got.exists
       THEN [vc |-> vc, result |-> FALSE]
       ELSE IF storedResourceVersion # obj.resourceVersion
            THEN [vc |-> remove(vc, obj), result |-> FALSE]
            ELSE [vc |-> vc, result |-> TRUE]

\* ------------------------------------------------------------------ state
VARIABLES
    pc,                     \* where Start is: "select", "reconcileEverything", ...
    ctxDone,                \* ctx.Done() is closed
    listLimit,              \* gr.listLimit: the page size asked of every list
    world,                  \* what the cluster can hold and answer
    objectValidationCache,  \* gr.objectValidationCache (DurableCache)
    currentObjects,         \* gr.currentObjects (LiveSet)
    watchNamespaces,        \* gr.watchNamespaces: the namespaces it has cached
    apiResources,           \* reconcileEverything's apiResources
    idx,                    \* processAllResources' position in resources
    namespacedResources,    \* processAllResources' namespacedResources
    finalErr,               \* processAllResources' finalErr: the errors appended
    nsQueue,                \* processNamespacedResources: namespaces left
    relatedObjects,         \* processNamespacedResources: groups left to reconcile
    calls,                  \* the calls the last step made to its collaborators
    attempted,              \* the <<kind, namespace>> lists this pass has asked for
    probe,                  \* an identity, chosen freely, whose history is kept
    hist,                   \* the probe's observations in this pass and the one before
    ret                     \* the last call made to the cache by itself, and its answer

vars == <<pc, ctxDone, listLimit, world, objectValidationCache, currentObjects,
          watchNamespaces, apiResources, idx, namespacedResources, finalErr,
          nsQueue, relatedObjects, calls, attempted, probe, hist, ret>>

\* ------------------------------------------------------------ collaborators
\* The continuation token of a last page, and of a first request: "".
EmptyToken == 0
\* An evaluation that returns an error.
EvalError == "error"
Verdicts == Outcomes \cup {EvalError}
\* watchNamespacesCache before getWatchNamespaces filled it.
NoCache == [set |-> FALSE, list |-> <<>>]

\* watchNamespacesCache.resetCache
resetCache == NoCache

\* watchNamespacesCache.getNamespaceUID: the UID of a cached namespace, or "".
getNamespaceUID(wn, namespace) ==
    IF wn.set /\ \E i \in 1..Len(wn.list) : wn.list[i].name = namespace
    THEN NsUID(namespace)
    ELSE ""

\* validations.NewRequestFromObject
NewRequestFromObject(obj) ==
    [Kind |-> obj.kind, Name |-> obj.name, Namespace |-> obj.namespace,
     NamespaceUID |-> "", UID |-> obj.uid]

\* The kinds the client's scheme has a type for.
Scheme == Kinds

\* lookUpType: whether the scheme makes an object of the kind.
lookUpType(obj) == obj.kind \in Scheme

\* unstructuredToTyped: whether the typed object is made.
unstructuredToTyped(obj) == lookUpType(obj) /\ obj.convertible

Min(S) == CHOOSE x \in S : \A y \in S : x <= y

\* One page of a list: the items after the token up to the server's next page
\* boundary, and the token of the page after it (EmptyToken on the last page).
ListPage(srv, continue) ==
    LET n == Len(srv.items)
        next == Min({c \in srv.cuts : c > continue} \cup {n})
    IN [items |-> SubSeq(srv.items, continue + 1, next),
        continue |-> IF next >= n THEN EmptyToken ELSE next]

\* --------------------------------------------------------- GenericReconciler
\* What one call chain threads through: the two caches, the calls made so far
\* (list requests, objects recorded in currentObjects, conversions that failed,
\* evaluations), the items of the lists it read to their last page, and the
\* error it returns.
Gr(ovc, cur) ==
    [ovc |-> ovc, cur |-> cur, lists |-> <<>>, seen |-> <<>>, conv |-> <<>>,
     evals |-> <<>>, served |-> <<>>, err |-> FALSE]

Seen(obj) == [key |-> newValidationKey(obj), version |-> obj.resourceVersion]

\* An item of a list that was read to its last page: its identity, and whether
\* one of its two app labels is a string.
Served(obj) ==
    [key |-> newValidationKey(obj),
     labelled |-> obj.meta \in AppLabels \/ obj.sel \in AppLabels]

ServedAll(items) == [i \in 1..Len(items) |-> Served(items[i])]

\* A variant of reconcile that stores an entry with no outcome when RunValidations
\* returns an error.
reconcileStoringOnError(g, wn, obj, verdict) ==
    LET chk == objectAlreadyValidated(g.ovc, obj)
        g1 == [g EXCEPT !.cur = store(@, obj, NoOutcome), !.ovc = chk.vc,
                        !.seen = Append(@, Seen(obj))]
        call == [fn |-> "RunValidations", objs |-> <<Seen(obj)>>,
                 namespaceUID |-> NewRequestFromObject(obj).NamespaceUID,
                 result |-> verdict]
    IN IF chk.result
       THEN g1
       ELSE IF ~unstructuredToTyped(obj)
            THEN [g1 EXCEPT !.conv = Append(@, Seen(obj)), !.err = TRUE]
            ELSE IF verdict = EvalError
                 THEN [g1 EXCEPT !.evals = Append(@, call), !.err = TRUE,
                                 !.ovc = store(@, obj, NoOutcome)]
                 ELSE [g1 EXCEPT !.evals = Append(@, call),
                                 !.ovc = store(@, obj, verdict)]

\* reconcile
reconcile(g, wn, obj, verdict) ==
    LET chk == objectAlreadyValidated(g.ovc, obj)
        g1 == [g EXCEPT !.cur = store(@, obj, NoOutcome), !.ovc = chk.vc,
                        !.seen = Append(@, Seen(obj))]
        request0 == NewRequestFromObject(obj)
        request == IF request0.Namespace # ""
                   THEN [request0 EXCEPT
                           !.NamespaceUID = getNamespaceUID(wn, request0.Namespace)]
                   ELSE request0
        call == [fn |-> "RunValidations", objs |-> <<Seen(obj)>>,
                 namespaceUID |-> request.NamespaceUID, result |-> verdict]
    IN IF chk.result
       THEN g1
       ELSE IF ~unstructuredToTyped(obj)
            THEN [g1 EXCEPT !.conv = Append(@, Seen(obj)), !.err = TRUE]
            ELSE IF verdict = EvalError
                 THEN [g1 EXCEPT !.evals = Append(@, call), !.err = TRUE]
                 ELSE [g1 EXCEPT !.evals = Append(@, call),
                                 !.ovc = store(@, obj, verdict)]

\* paginatedList's loop over the items of a page: it returns at the first error.
RECURSIVE reconcileItems(_, _, _, _, _)
reconcileItems(g, wn, items, verdicts, i) ==
    IF i > Len(items)
    THEN g
    ELSE LET g1 == reconcile(g, wn, items[i], verdicts[items[i].name])
         IN IF g1.err THEN g1 ELSE reconcileItems(g1, wn, items, verdicts, i + 1)

ListCall(gvk, namespace, continue, ok, next) ==
    [kind |-> gvk.Kind, namespace |-> namespace, continue |-> continue,
     ok |-> ok, next |-> next]

\* A variant of paginatedListFrom that reads one page and stops.
paginatedListOnePage(g, wn, gvk, namespace, srv, verdicts, continue, pageNo) ==
    IF srv.failAt = pageNo
    THEN [g EXCEPT !.lists = Append(@, ListCall(gvk, namespace, continue, FALSE, EmptyToken)),
                   !.err = TRUE]
    ELSE [reconcileItems([g EXCEPT !.lists =
                             Append(@, ListCall(gvk, namespace, continue, TRUE,
                                                ListPage(srv, continue).continue))],
                         wn, ListPage(srv, continue).items, verdicts, 1)
            EXCEPT !.served = @ \o ServedAll(srv.items)]

\* paginatedList, from the request that carries the token continue.
RECURSIVE paginatedListFrom(_, _, _, _, _, _, _, _)
paginatedListFrom(g, wn, gvk, namespace, srv, verdicts, continue, pageNo) ==
    IF srv.failAt = pageNo
    THEN [g EXCEPT !.lists = Append(@, ListCall(gvk, namespace, continue, FALSE, EmptyToken)),
                   !.err = TRUE]
    ELSE LET page == ListPage(srv, continue)
             g1 == [g EXCEPT !.lists = Append(@, ListCall(gvk, namespace, continue,
                                                          TRUE, page.continue))]
             g2 == reconcileItems(g1, wn, page.items, verdicts, 1)
             listContinue == page.continue
         IN IF g2.err
            THEN g2
            ELSE IF listContinue = EmptyToken
                 THEN [g2 EXCEPT !.served = @ \o ServedAll(srv.items)]
                 ELSE paginatedListFrom(g2, wn, gvk, namespace, srv, verdicts,
                                        listContinue, pageNo + 1)

\* paginatedList
paginatedList(g, wn, gvk, namespace, srv, verdicts) ==
    paginatedListFrom(g, wn, gvk, namespace, srv, verdicts, EmptyToken, 1)

\* retry.DefaultBackoff.Steps
DefaultBackoffSteps == 4

\* processObjectInstances' do: done is always true.
do(g, wn, gvk, namespace, srv, verdicts) ==
    [done |-> TRUE, g |-> paginatedList(g, wn, gvk, namespace, srv, verdicts)]

\* wait.ExponentialBackoffWithContext(ctx, retry.DefaultBackoff, do): it returns
\* ctx.Err() when ctx is done, returns what the condition returns when that is
\* an error or done, and ErrWaitTimeout when the steps are used up.  responses
\* holds the server's answer to each attempt.
RECURSIVE ExponentialBackoffWithContext(_, _, _, _, _, _, _, _, _)
ExponentialBackoffWithContext(steps, cancelled, g, wn, gvk, namespace, responses, verdicts, attempt) ==
    IF steps <= 0 \/ cancelled
    THEN [g EXCEPT !.err = TRUE]
    ELSE LET srv == responses[IF attempt <= Len(responses) THEN attempt
                              ELSE Len(responses)]
             r == do(g, wn, gvk, namespace, srv, verdicts)
         IN IF r.g.err \/ r.done
            THEN r.g
            ELSE IF steps = 1
                 THEN [r.g EXCEPT !.err = TRUE]
                 ELSE ExponentialBackoffWithContext(steps - 1, cancelled, r.g, wn, gvk,
                                                    namespace, responses, verdicts,
                                                    attempt + 1)

\* processObjectInstances
processObjectInstances(g, wn, gvk, namespace, cancelled, responses, verdicts) ==
    LET listGvk == [gvk EXCEPT !.Kind = gvk.Kind \o "List"]
    IN ExponentialBackoffWithContext(DefaultBackoffSteps, cancelled, g, wn, listGvk,
                                     namespace, responses, verdicts, 1)

\* processClusterscopedResources
processClusterscopedResources(g, wn, gvk, cancelled, responses, verdicts) ==
    processObjectInstances(g, wn, gvk, "", cancelled, responses, verdicts)

\* unstructured.NestedString on a label field: the value, found, err.
NestedString(field) ==
    IF field = NoLabel THEN [val |-> "", found |-> FALSE, err |-> FALSE]
    ELSE IF field = Malformed THEN [val |-> "", found |-> FALSE, err |-> TRUE]
    ELSE [val |-> field, found |-> TRUE, err |-> FALSE]

\* A variant of getAppLabel that answers the empty label, and no error, for an
\* object that has neither label.
getAppLabelDefaulting(object) ==
    LET first == NestedString(object.meta)
        second == NestedString(object.sel)
    IN IF first.found THEN [appLabel |-> first.val, err |-> FALSE]
       ELSE IF second.found THEN [appLabel |-> second.val, err |-> FALSE]
       ELSE [appLabel |-> "", err |-> FALSE]

\* getAppLabel
getAppLabel(object) ==
    LET first == NestedString(object.meta)
        second == NestedString(object.sel)
    IN IF ~first.found
       THEN IF second.err THEN [appLabel |-> "", err |-> TRUE]
            ELSE IF ~second.found THEN [appLabel |-> "", err |-> TRUE]
            ELSE [appLabel |-> second.val, err |-> FALSE]
       ELSE IF first.err THEN [appLabel |-> "", err |-> TRUE]
            ELSE [appLabel |-> first.val, err |-> FALSE]

\* relatedObjects[appLabel] = append(relatedObjects[appLabel], obj)
AppendRelated(related, appLabel, obj) ==
    [l \in (DOMAIN related) \cup {appLabel} |->
        IF l = appLabel
        THEN (IF l \in DOMAIN related THEN related[l] ELSE <<>>) \o <<obj>>
        ELSE related[l]]

\* groupAppObjects' loop over the items of a page.
RECURSIVE groupItems(_, _, _)
groupItems(related, items, i) ==
    IF i > Len(items)
    THEN related
    ELSE LET got == getAppLabel(items[i])
         IN IF got.err
            THEN groupItems(related, items, i + 1)
            ELSE groupItems(AppendRelated(related, got.appLabel, items[i]), items, i + 1)

\* groupAppObjects' loop over the pages of one kind, from the request that
\* carries the token continue.  r holds relatedObjects, the list calls made and
\* the error.
RECURSIVE groupPagesFrom(_, _, _, _, _, _)
groupPagesFrom(r, gvk, namespace, srv, continue, pageNo) ==
    IF srv.failAt = pageNo
    THEN [r EXCEPT !.lists = Append(@, ListCall(gvk, namespace, continue, FALSE, EmptyToken)),
                   !.related = [l \in {} |-> <<>>], !.err = TRUE]
    ELSE LET page == ListPage(srv, continue)
             r1 == [r EXCEPT !.lists = Append(@, ListCall(gvk, namespace, continue,
                                                          TRUE, page.continue)),
                             !.related = groupItems(@, page.items, 1)]
             listContinue == page.continue
         IN IF listContinue = EmptyToken
            THEN [r1 EXCEPT !.served = @ \o ServedAll(srv.items)]
            ELSE groupPagesFrom(r1, gvk, namespace, srv, listContinue, pageNo + 1)

\* groupAppObjects: servers gives the server's answer for each kind.
RECURSIVE groupAppObjectsFrom(_, _, _, _, _)
groupAppObjectsFrom(r, namespace, gvks, servers, i) ==
    IF i > Len(gvks)
    THEN r
    ELSE LET r1 == groupPagesFrom(r, gvks[i], namespace, servers[gvks[i].Kind],
                                  EmptyToken, 1)
         IN IF r1.err THEN r1
            ELSE groupAppObjectsFrom(r1, namespace, gvks, servers, i + 1)

groupAppObjects(namespace, gvks, servers) ==
    groupAppObjectsFrom([related |-> [l \in {} |-> <<>>], lists |-> <<>>,
                         served |-> <<>>, err |-> FALSE],
                        namespace, gvks, servers, 1)

\* reconcileGroupOfObjects' first loop: every object is stored in currentObjects,
\* and those not already validated are collected.
RECURSIVE collectNonValidated(_, _, _, _)
collectNonValidated(g, objs, nonValidatedObj, i) ==
    IF i > Len(objs)
    THEN [g |-> g, nonValidatedObj |-> nonValidatedObj]
    ELSE LET o == objs[i]
             chk == objectAlreadyValidated(g.ovc, o)
             g1 == [g EXCEPT !.cur = store(@, o, NoOutcome), !.ovc = chk.vc,
                             !.seen = Append(@, Seen(o))]
         IN IF chk.result
            THEN collectNonValidated(g1, objs, nonValidatedObj, i + 1)
            ELSE collectNonValidated(g1, objs, Append(nonValidatedObj, o), i + 1)

\* reconcileGroupOfObjects' second loop: the index of the first object that
\* unstructuredToTyped fails on, or 0.
FirstUnconvertible(objs) ==
    IF \E i \in 1..Len(objs) : ~unstructuredToTyped(objs[i])
    THEN Min({i \in 1..Len(objs) : ~unstructuredToTyped(objs[i])})
    ELSE 0

\* A variant of storeAll that stores the outcome for the first object only.
storeFirst(vc, objs, outcome, i) ==
    IF Len(objs) = 0 THEN vc ELSE store(vc, objs[1], outcome)

\* reconcileGroupOfObjects' last loop: the outcome is stored for every object.
RECURSIVE storeAll(_, _, _, _)
storeAll(vc, objs, outcome, i) ==
    IF i > Len(objs) THEN vc
    ELSE storeAll(store(vc, objs[i], outcome), objs, outcome, i + 1)

\* A variant of reconcileGroupOfObjects that leaves out the objects that do not
\* convert, and evaluates the others.
reconcileGroupOfObjectsSkipping(g, wn, objs, namespace, verdict) ==
    LET c == collectNonValidated(g, objs, <<>>, 1)
        converted == SelectSeq(c.nonValidatedObj, unstructuredToTyped)
        call == [fn |-> "RunValidationsForObjects",
                 objs |-> [i \in 1..Len(converted) |-> Seen(converted[i])],
                 namespaceUID |-> getNamespaceUID(wn, namespace), result |-> verdict]
    IN IF verdict = EvalError
       THEN [c.g EXCEPT !.evals = Append(@, call), !.err = TRUE,
                        !.conv = IF FirstUnconvertible(c.nonValidatedObj) = 0 THEN @
                                 ELSE Append(@, Seen(c.nonValidatedObj[
                                                  FirstUnconvertible(c.nonValidatedObj)]))]
       ELSE [c.g EXCEPT !.evals = Append(@, call),
                        !.ovc = storeAll(@, converted, verdict, 1),
                        !.err = FirstUnconvertible(c.nonValidatedObj) # 0,
                        !.conv = IF FirstUnconvertible(c.nonValidatedObj) = 0 THEN @
                                 ELSE Append(@, Seen(c.nonValidatedObj[
                                                  FirstUnconvertible(c.nonValidatedObj)]))]

\* A variant of reconcileGroupOfObjects that returns before the evaluation call
\* when no object of the group needs evaluation.
reconcileGroupOfObjectsIfAny(g, wn, objs, namespace, verdict) ==
    LET c == collectNonValidated(g, objs, <<>>, 1)
        call == [fn |-> "RunValidationsForObjects",
                 objs |-> [i \in 1..Len(c.nonValidatedObj) |-> Seen(c.nonValidatedObj[i])],
                 namespaceUID |-> getNamespaceUID(wn, namespace), result |-> verdict]
    IN IF c.nonValidatedObj = <<>>
       THEN c.g
       ELSE IF FirstUnconvertible(c.nonValidatedObj) # 0
       THEN [c.g EXCEPT !.conv = Append(@, Seen(c.nonValidatedObj[
                                               FirstUnconvertible(c.nonValidatedObj)])),
                        !.err = TRUE]
       ELSE IF verdict = EvalError
            THEN [c.g EXCEPT !.evals = Append(@, call), !.err = TRUE]
            ELSE [c.g EXCEPT !.evals = Append(@, call),
                             !.ovc = storeAll(@, c.nonValidatedObj, verdict, 1)]

\* reconcileGroupOfObjects
reconcileGroupOfObjects(g, wn, objs, namespace, verdict) ==
    LET c == collectNonValidated(g, objs, <<>>, 1)
        nonValidatedObj == c.nonValidatedObj
        namespaceUID == getNamespaceUID(wn, namespace)
        call == [fn |-> "RunValidationsForObjects",
                 objs |-> [i \in 1..Len(nonValidatedObj) |-> Seen(nonValidatedObj[i])],
                 namespaceUID |-> namespaceUID, result |-> verdict]
        bad == FirstUnconvertible(nonValidatedObj)
    IN IF bad # 0
       THEN [c.g EXCEPT !.conv = Append(@, Seen(nonValidatedObj[bad])), !.err = TRUE]
       ELSE IF verdict = EvalError
            THEN [c.g EXCEPT !.evals = Append(@, call), !.err = TRUE]
            ELSE [c.g EXCEPT !.evals = Append(@, call),
                             !.ovc = storeAll(@, nonValidatedObj, verdict, 1)]

\* validations.Request.ToPromLabels: the labels DeleteMetrics is given.
ToPromLabels(req) == req

\* handleResourceDeletions' loop over the keys of objectValidationCache: d holds
\* the cache and the DeleteMetrics calls made.
RECURSIVE deleteGone(_, _, _, _)
deleteGone(d, cur, wn, keys) ==
    IF keys = {}
    THEN d
    ELSE LET k == CHOOSE x \in keys : TRUE
             v == d.ovc[k]
             req == [Kind |-> k.kind, Name |-> k.name, Namespace |-> k.namespace,
                     NamespaceUID |-> getNamespaceUID(wn, k.namespace), UID |-> v.uid]
         IN IF has(cur, k)
            THEN deleteGone(d, cur, wn, keys \ {k})
            ELSE deleteGone([ovc |-> removeKey(d.ovc, k),
                             deletes |-> Append(d.deletes, [key |-> k,
                                                            labels |-> ToPromLabels(req)])],
                            cur, wn, keys \ {k})

\* handleResourceDeletions
handleResourceDeletions(ovc, cur, wn) ==
    LET d == deleteGone([ovc |-> ovc, deletes |-> <<>>], cur, wn, DOMAIN ovc)
    IN [ovc |-> d.ovc, cur |-> drain(cur), deletes |-> d.deletes]

\* ------------------------------------------------------ the environment's answers
Scopes == {<<k, "">> : k \in ClusterKinds} \cup (NamespacedKinds \X Namespaces)

\* The objects the cluster can hold: a Node, and a Deployment in ns1.
MainNames ==
    [s \in Scopes |-> IF s \in {<<"Node", "">>, <<"Deployment", "ns1">>} THEN {1} ELSE {}]

\* Cluster-scoped objects only: a ClusterRole and a Node.
ClusterNames == [s \in Scopes |-> IF s[2] = "" THEN {1} ELSE {}]

\* Namespace-scoped objects only: two Deployments in ns1.
GroupNames == [s \in Scopes |-> IF s = <<"Deployment", "ns1">> THEN {1, 2} ELSE {}]

\* Lists of up to MaxItems objects: Nodes, and Deployments in ns1.
PageNames ==
    [s \in Scopes |-> IF s \in {<<"Node", "">>, <<"Deployment", "ns1">>}
                      THEN 1..MaxItems ELSE {}]

KeyOf(kind, namespace, name) ==
    [group |-> GroupOf(kind), version |-> VersionOf(kind), kind |-> kind,
     namespace |-> namespace, name |-> name]

\* No identity: the probe of the specifications that keep no history.
NoProbe == KeyOf("", "", 0)

\* The identities of the objects the cluster can hold.
KeysOf(nm) == UNION {{KeyOf(s[1], s[2], n) : n \in nm[s]} : s \in Scopes}

\* The app labels of an object: <<metadata.labels.app, spec.selector.matchLabels.app>>.
LabelShapes ==
    {<<"a", NoLabel>>, <<NoLabel, "a">>, <<NoLabel, NoLabel>>, <<Malformed, "b">>,
     <<NoLabel, Malformed>>}

\* The labels of the objects of the group scenarios: "a", "b" or none.
GroupShapes == {<<"a", NoLabel>>, <<"b", NoLabel>>, <<NoLabel, NoLabel>>}

\* What a list can hold under a name: nothing (Absent), or an object with a
\* revision, a convertibility and labels.  verdict is what RunValidations
\* answers for the object of a cluster-scoped kind.
Absent ==
    [resourceVersion |-> 0, convertible |-> FALSE, labels |-> <<NoLabel, NoLabel>>,
     verdict |-> EvalError]

Bodies(kind) ==
    [resourceVersion : world.revisions, convertible : world.convertible,
     labels : IF kind \in NamespacedKinds THEN world.shapes ELSE {<<NoLabel, NoLabel>>},
     verdict : IF kind \in NamespacedKinds THEN {EvalError} ELSE world.verdicts]

Present(content) == {n \in DOMAIN content : content[n] # Absent}

\* What the list of a kind in a namespace can hold.
Contents(kind, namespace) ==
    {content \in [world.names[<<kind, namespace>>] -> {Absent} \cup Bodies(kind)] :
        Present(content) \in world.together[<<kind, namespace>>]}

\* The page boundaries a server can serve n items in when asked for pages of
\* limit items: no page is empty, and none is longer than limit.
Cuts(n, limit) ==
    {c \in SUBSET (1..(n - 1)) :
        \A i \in 0..(n - 1) : \E j \in (c \cup {n}) : i < j /\ j <= i + limit}

RECURSIVE SortedSeq(_)
SortedSeq(S) == IF S = {} THEN <<>> ELSE <<Min(S)>> \o SortedSeq(S \ {Min(S)})

\* The items of a list: the objects present, by name.
Items(kind, namespace, present, body) ==
    LET order == SortedSeq(present)
    IN [i \in 1..Len(order) |->
          Object(kind, namespace, order[i], body[order[i]].resourceVersion,
                 body[order[i]].labels[1], body[order[i]].labels[2],
                 body[order[i]].convertible)]

\* The answer of the server to the list of a kind in a namespace: the items,
\* the page boundaries it serves them in, and the page request it fails (0: none).
Server(kind, namespace, content, cuts, failAt) ==
    [items |-> Items(kind, namespace, Present(content), content), cuts |-> cuts,
     failAt |-> failAt]

\* The labels of the objects of the pagination scenarios: "a".
PageShapes == {<<"a", NoLabel>>}

\* Resource lists the discovery query can answer with.
ResourcesInOrder == <<APIResource("ClusterRole"), APIResource("Node"), APIResource("Deployment")>>
ResourcesReversed == <<APIResource("Deployment"), APIResource("Node"), APIResource("ClusterRole")>>

\* What the cluster can hold and answer: the names of the objects of each kind
\* and namespace, the labels of its namespace-scoped objects, the answers of the
\* discovery query and those of the watched-namespace query, the revisions of
\* its objects, whether they convert, the answers of the evaluations, which
\* of the objects can be there together, and whether a list request that
\* failed would be answered if it were made again.
World(nm, sh, discovery, watched) ==
    [names |-> nm, shapes |-> sh, discovery |-> discovery, watched |-> watched,
     revisions |-> Revisions, convertible |-> BOOLEAN, verdicts |-> Verdicts,
     together |-> [s \in Scopes |-> SUBSET nm[s]], recoverable |-> {FALSE}]

\* The kind of the items of a list of kind listKind.
ItemKind(listKind) ==
    IF Len(listKind) > 4 /\ SubSeq(listKind, Len(listKind) - 3, Len(listKind)) = "List"
    THEN SubSeq(listKind, 1, Len(listKind) - 4)
    ELSE listKind

\* --------------------------------------------------------------- histories
NoCalls ==
    [lists |-> <<>>, seen |-> <<>>, conv |-> <<>>, evals |-> <<>>, served |-> <<>>,
     deletes |-> <<>>, returned |-> "none", recoverable |-> FALSE]

CallsOf(g) ==
    [NoCalls EXCEPT !.lists = g.lists, !.seen = g.seen, !.conv = g.conv,
                    !.evals = g.evals, !.served = g.served]

ListsOf(lists) ==
    {<<ItemKind(lists[i].kind), lists[i].namespace>> : i \in 1..Len(lists)}

\* The history of the probe: the revision it was recorded in currentObjects with
\* (0: it was not), the evaluation calls made for it and whether the last of
\* them returned an outcome, in the pass before (prev) and in this pass (cur);
\* and whether an outcome was stored for it with no DeleteMetrics call since.
NoHist ==
    [prevObs |-> 0, prevCalls |-> 0, prevOk |-> FALSE,
     curObs |-> 0, curCalls |-> 0, curOk |-> FALSE, tracked |-> FALSE]

\* The probe's history after a step that made the calls of g.
Observed(h, p, g) ==
    LET at == {i \in 1..Len(g.seen) : g.seen[i].key = p}
        ev == {i \in 1..Len(g.evals) :
                 \E j \in 1..Len(g.evals[i].objs) : g.evals[i].objs[j].key = p}
        last == CHOOSE i \in ev : \A j \in ev : j <= i
    IN [h EXCEPT
          !.curObs = IF at = {} THEN @ ELSE g.seen[CHOOSE i \in at : TRUE].version,
          !.curCalls = @ + Cardinality(ev),
          !.curOk = IF ev = {} THEN @ ELSE g.evals[last].result # EvalError,
          !.tracked = IF ev # {} /\ g.evals[last].result # EvalError THEN TRUE ELSE @]

\* No call made to the cache by itself.
NoRet ==
    [op |-> "none", key |-> NoProbe, version |-> 0, result |-> FALSE,
     val |-> ZeroResource]

\* ------------------------------------------------------------------ actions
PassLocals == <<apiResources, idx, namespacedResources, finalErr, nsQueue, relatedObjects>>

NoGroups == [l \in {} |-> <<>>]

ResetLocals ==
    /\ apiResources' = <<>>
    /\ idx' = 1
    /\ namespacedResources' = <<>>
    /\ finalErr' = <<>>
    /\ nsQueue' = <<>>
    /\ relatedObjects' = NoGroups

InitWith(w, limits, probes) ==
    /\ pc = "select"
    /\ ctxDone = FALSE
    /\ listLimit \in limits
    /\ world = w
    /\ objectValidationCache = newValidationCache
    /\ currentObjects = newValidationCache
    /\ watchNamespaces = NoCache
    /\ apiResources = <<>>
    /\ idx = 1
    /\ namespacedResources = <<>>
    /\ finalErr = <<>>
    /\ nsQueue = <<>>
    /\ relatedObjects = NoGroups
    /\ calls = NoCalls
    /\ attempted = {}
    /\ probe \in probes
    /\ hist = NoHist
    /\ ret = NoRet

\* NewGenericReconciler, and a cluster that can hold the objects of MainNames.
Init ==
    InitWith(World(MainNames, LabelShapes,
                   {<<APIResource("Node"), APIResource("Deployment")>>},
                   {<<"ns1", "ns2">>}), {1}, {NoProbe})

\* The context is cancelled.
Cancel ==
    /\ pc # "returned"
    /\ ~ctxDone
    /\ ctxDone' = TRUE
    /\ UNCHANGED <<pc, listLimit, world, objectValidationCache, currentObjects, watchNamespaces,
                   PassLocals, calls, attempted, probe, hist, ret>>

\* A variant of Select that also returns when the pass before it returned an
\* error.
SelectReturningOnError ==
    /\ pc = "select"
    /\ IF ctxDone \/ calls.returned \notin {"none", "nil"}
       THEN /\ pc' = "returned"
            /\ UNCHANGED <<hist, attempted>>
       ELSE /\ pc' = "reconcileEverything"
            /\ hist' = [hist EXCEPT !.prevObs = hist.curObs, !.prevCalls = hist.curCalls,
                                    !.prevOk = hist.curOk,
                                    !.curObs = 0, !.curCalls = 0, !.curOk = FALSE]
            /\ attempted' = {}
    /\ calls' = NoCalls
    /\ UNCHANGED <<ctxDone, listLimit, world, objectValidationCache, currentObjects,
                   watchNamespaces, PassLocals, probe, ret>>

\* Start: the select at the top of the loop.
Select ==
    /\ pc = "select"
    /\ IF ctxDone
       THEN /\ pc' = "returned"
            /\ UNCHANGED <<hist, attempted>>
       ELSE /\ pc' = "reconcileEverything"
            /\ hist' = [hist EXCEPT !.prevObs = hist.curObs, !.prevCalls = hist.curCalls,
                                    !.prevOk = hist.curOk,
                                    !.curObs = 0, !.curCalls = 0, !.curOk = FALSE]
            /\ attempted' = {}
    /\ calls' = NoCalls
    /\ UNCHANGED <<ctxDone, listLimit, world, objectValidationCache, currentObjects,
                   watchNamespaces, PassLocals, probe, ret>>

\* A variant of DiscoveryFails that resets the namespace cache first.
DiscoveryFailsAfterReset ==
    /\ pc = "reconcileEverything"
    /\ pc' = "select"
    /\ calls' = [NoCalls EXCEPT !.returned = "retrieving resources to reconcile"]
    /\ watchNamespaces' = resetCache
    /\ UNCHANGED <<ctxDone, listLimit, world, objectValidationCache, currentObjects,
                   PassLocals, attempted, probe, hist, ret>>

\* reconcileEverything: reconcileResourceList fails.
DiscoveryFails ==
    /\ pc = "reconcileEverything"
    /\ pc' = "select"
    /\ calls' = [NoCalls EXCEPT !.returned = "retrieving resources to reconcile"]
    /\ UNCHANGED <<ctxDone, listLimit, world, objectValidationCache, currentObjects,
                   watchNamespaces, PassLocals, attempted, probe, hist, ret>>

\* reconcileEverything: reconcileResourceList answers, and the namespace cache
\* is reset.
Discover ==
    /\ pc = "reconcileEverything"
    /\ \E resources \in world.discovery :
          /\ apiResources' = resources
          /\ pc' = IF Len(resources) = 0 THEN "processNamespacedResources"
                   ELSE "processAllResources"
    /\ watchNamespaces' = resetCache
    /\ idx' = 1
    /\ namespacedResources' = <<>>
    /\ finalErr' = <<>>
    /\ calls' = NoCalls
    /\ UNCHANGED <<ctxDone, listLimit, world, objectValidationCache, currentObjects, nsQueue,
                   relatedObjects, attempted, probe, hist, ret>>

\* A variant of AfterResource that leaves the loop at the first error.
AfterResourceStopping(err, i, resources) ==
    IF err THEN "return"
    ELSE IF i = Len(resources) THEN "processNamespacedResources"
    ELSE "processAllResources"

\* Where processAllResources goes after the resource at i, whose processing
\* returned an error or not: to the next resource, or to
\* processNamespacedResources after the last.
AfterResource(err, i, resources) ==
    IF i = Len(resources) THEN "processNamespacedResources" ELSE "processAllResources"

\* processAllResources: one turn of the loop over the resources.
ProcessResource ==
    /\ pc = "processAllResources"
    /\ idx <= Len(apiResources)
    /\ LET resource == apiResources[idx]
           gvk == gvkFromMetav1APIResource(resource)
       IN IF resource.Namespaced
          THEN /\ namespacedResources' = Append(namespacedResources, gvk)
               /\ pc' = AfterResource(FALSE, idx, apiResources)
               /\ calls' = NoCalls
               /\ UNCHANGED <<objectValidationCache, currentObjects, finalErr,
                              attempted, hist>>
          ELSE \E content \in Contents(gvk.Kind, "") :
               \E cuts \in Cuts(Cardinality(Present(content)), listLimit) :
               \E failAt \in 0..(Cardinality(cuts) + 1) :
               \E recoverable \in (IF failAt = 0 THEN {FALSE} ELSE world.recoverable) :
               \E g \in {processClusterscopedResources(
                            Gr(objectValidationCache, currentObjects), watchNamespaces,
                            gvk, ctxDone,
                            IF recoverable
                            THEN <<Server(gvk.Kind, "", content, cuts, failAt),
                                   Server(gvk.Kind, "", content, cuts, 0)>>
                            ELSE <<Server(gvk.Kind, "", content, cuts, failAt)>>,
                            [n \in Present(content) |-> content[n].verdict])} :
                     /\ objectValidationCache' = g.ovc
                     /\ currentObjects' = g.cur
                     /\ finalErr' = IF g.err THEN Append(finalErr, gvk.Kind) ELSE finalErr
                     /\ pc' = AfterResource(g.err, idx, apiResources)
                     /\ calls' = [CallsOf(g) EXCEPT !.recoverable = recoverable]
                     /\ attempted' = attempted \cup ListsOf(g.lists)
                     /\ hist' = Observed(hist, probe, g)
                     /\ UNCHANGED namespacedResources
    /\ idx' = idx + 1
    /\ UNCHANGED <<ctxDone, listLimit, world, watchNamespaces, apiResources, nsQueue,
                   relatedObjects, probe, ret>>

\* A variant of WatchNamespacesFails that undoes the stores of the pass.
WatchNamespacesFailsRollingBack ==
    /\ pc = "processNamespacedResources"
    /\ ~watchNamespaces.set
    /\ finalErr' = Append(finalErr, "namespace scoped resources")
    /\ pc' = "return"
    /\ calls' = NoCalls
    /\ objectValidationCache' = newValidationCache
    /\ UNCHANGED <<ctxDone, listLimit, world, currentObjects,
                   watchNamespaces, apiResources, idx, namespacedResources, nsQueue,
                   relatedObjects, attempted, probe, hist, ret>>

\* processNamespacedResources: getWatchNamespaces fails.
WatchNamespacesFails ==
    /\ pc = "processNamespacedResources"
    /\ ~watchNamespaces.set
    /\ finalErr' = Append(finalErr, "namespace scoped resources")
    /\ pc' = "return"
    /\ calls' = NoCalls
    /\ UNCHANGED <<ctxDone, listLimit, world, objectValidationCache, currentObjects,
                   watchNamespaces, apiResources, idx, namespacedResources, nsQueue,
                   relatedObjects, attempted, probe, hist, ret>>

\* processNamespacedResources: getWatchNamespaces answers (from its cache when
\* it has one), and the loop over the namespaces starts.
GetWatchNamespaces ==
    /\ pc = "processNamespacedResources"
    /\ \E watched \in world.watched :
          LET namespaces == IF watchNamespaces.set THEN watchNamespaces.list
                            ELSE [i \in 1..Len(watched) |->
                                    [name |-> watched[i], uid |-> NsUID(watched[i])]]
          IN /\ watchNamespaces' = [set |-> TRUE, list |-> namespaces]
             /\ nsQueue' = namespaces
             /\ pc' = IF Len(namespaces) = 0 THEN "return" ELSE "groupAppObjects"
    /\ calls' = NoCalls
    /\ UNCHANGED <<ctxDone, listLimit, world, objectValidationCache, currentObjects, apiResources,
                   idx, namespacedResources, finalErr, relatedObjects, attempted,
                   probe, hist, ret>>

\* Where processNamespacedResources goes when the groups of a namespace are done.
AfterNamespace(queue) == IF Len(queue) <= 1 THEN "return" ELSE "groupAppObjects"

\* A variant of AfterNamespaceError that goes on with the namespaces left.
AfterNamespaceErrorContinuing(queue) == AfterNamespace(queue)

\* Where processNamespacedResources goes when groupAppObjects or
\* reconcileGroupOfObjects returned an error: it returns it.
AfterNamespaceError(queue) == "return"

\* processNamespacedResources: groupAppObjects for the next namespace.
GroupAppObjects ==
    /\ pc = "groupAppObjects"
    /\ LET ns == Head(nsQueue)
           kinds == {namespacedResources[i].Kind : i \in 1..Len(namespacedResources)}
       IN \E content \in [kinds -> UNION {Contents(k, ns.name) : k \in kinds}] :
          \E cuts \in [kinds -> UNION {Cuts(Cardinality(Present(content[k])), listLimit) :
                                         k \in kinds}] :
          \E failAt \in [kinds -> 0..(Cardinality(UNION {cuts[k] : k \in kinds}) + 1)] :
             /\ \A k \in kinds :
                   /\ content[k] \in Contents(k, ns.name)
                   /\ cuts[k] \in Cuts(Cardinality(Present(content[k])), listLimit)
                   /\ failAt[k] <= Cardinality(cuts[k]) + 1
             /\ \E r \in {groupAppObjects(ns.name, namespacedResources,
                                          [k \in kinds |-> Server(k, ns.name, content[k],
                                                                  cuts[k], failAt[k])])} :
                   /\ calls' = [NoCalls EXCEPT !.lists = r.lists, !.served = r.served]
                   /\ attempted' = attempted \cup ListsOf(r.lists)
                   /\ IF r.err
                      THEN /\ finalErr' = Append(finalErr, "namespace scoped resources")
                           /\ pc' = AfterNamespaceError(nsQueue)
                           /\ UNCHANGED <<nsQueue, relatedObjects>>
                      ELSE /\ relatedObjects' = r.related
                           /\ UNCHANGED finalErr
                           /\ IF DOMAIN r.related = {}
                              THEN /\ nsQueue' = Tail(nsQueue)
                                   /\ pc' = AfterNamespace(nsQueue)
                              ELSE /\ pc' = "reconcileGroupOfObjects"
                                   /\ UNCHANGED nsQueue
    /\ UNCHANGED <<ctxDone, listLimit, world, objectValidationCache, currentObjects,
                   watchNamespaces, apiResources, idx, namespacedResources, probe, hist, ret>>

\* processNamespacedResources: reconcileGroupOfObjects for one of the groups
\* left, in the order the map of groups is ranged over.
ReconcileGroup ==
    /\ pc = "reconcileGroupOfObjects"
    /\ \E label \in DOMAIN relatedObjects :
       \E verdict \in world.verdicts :
       \E g \in {reconcileGroupOfObjects(Gr(objectValidationCache, currentObjects),
                                         watchNamespaces, relatedObjects[label],
                                         Head(nsQueue).name, verdict)} :
          LET rest == [l \in (DOMAIN relatedObjects) \ {label} |-> relatedObjects[l]]
          IN /\ objectValidationCache' = g.ovc
             /\ currentObjects' = g.cur
             /\ calls' = CallsOf(g)
             /\ hist' = Observed(hist, probe, g)
             /\ IF g.err
                THEN /\ finalErr' = Append(finalErr, "namespace scoped resources")
                     /\ pc' = AfterNamespaceError(nsQueue)
                     /\ relatedObjects' = NoGroups
                     /\ UNCHANGED nsQueue
                ELSE /\ relatedObjects' = rest
                     /\ UNCHANGED finalErr
                     /\ IF DOMAIN rest = {}
                        THEN /\ nsQueue' = Tail(nsQueue)
                             /\ pc' = AfterNamespace(nsQueue)
                        ELSE /\ pc' = "reconcileGroupOfObjects"
                             /\ UNCHANGED nsQueue
    /\ UNCHANGED <<ctxDone, listLimit, world, watchNamespaces, apiResources, idx,
                   namespacedResources, attempted, probe, ret>>

\* A variant of ReturnError that runs handleResourceDeletions before it returns
\* the error.
ReturnErrorAfterDeletions ==
    /\ pc = "return"
    /\ finalErr # <<>>
    /\ \E d \in {handleResourceDeletions(objectValidationCache, currentObjects,
                                          watchNamespaces)} :
          /\ objectValidationCache' = d.ovc
          /\ currentObjects' = d.cur
          /\ calls' = [NoCalls EXCEPT !.deletes = d.deletes,
                                      !.returned = "processing all resources"]
    /\ pc' = "select"
    /\ ResetLocals
    /\ UNCHANGED <<ctxDone, listLimit, world, watchNamespaces, attempted, probe, hist, ret>>

\* reconcileEverything: processAllResources returned an error, and so does it.
ReturnError ==
    /\ pc = "return"
    /\ finalErr # <<>>
    /\ pc' = "select"
    /\ calls' = [NoCalls EXCEPT !.returned = "processing all resources"]
    /\ ResetLocals
    /\ UNCHANGED <<ctxDone, listLimit, world, objectValidationCache, currentObjects,
                   watchNamespaces, attempted, probe, hist, ret>>

\* reconcileEverything: processAllResources returned no error;
\* handleResourceDeletions.
HandleResourceDeletions ==
    /\ pc = "return"
    /\ finalErr = <<>>
    /\ \E d \in {handleResourceDeletions(objectValidationCache, currentObjects,
                                          watchNamespaces)} :
          /\ objectValidationCache' = d.ovc
          /\ currentObjects' = d.cur
          /\ calls' = [NoCalls EXCEPT !.deletes = d.deletes, !.returned = "nil"]
          /\ hist' = [hist EXCEPT !.tracked =
                        IF \E i \in 1..Len(d.deletes) : d.deletes[i].key = probe
                        THEN FALSE ELSE @]
    /\ pc' = "select"
    /\ ResetLocals
    /\ UNCHANGED <<ctxDone, listLimit, world, watchNamespaces, attempted, probe, ret>>

Next ==
    \/ Select
    \/ DiscoveryFails
    \/ Discover
    \/ ProcessResource
    \/ WatchNamespacesFails
    \/ GetWatchNamespaces
    \/ GroupAppObjects
    \/ ReconcileGroup
    \/ ReturnError
    \/ HandleResourceDeletions

Spec == Init /\ [][Next]_vars

\* Start, under a context that can be cancelled at any moment.
StartNext == Next \/ Cancel

StartSpec == Init /\ [][StartNext]_vars

\* A cluster that holds namespace-scoped objects only.
GroupInit ==
    InitWith(World(GroupNames, GroupShapes, {<<APIResource("Deployment")>>},
                   {<<"ns1", "ns2">>}), {1}, {NoProbe})

GroupSpec == GroupInit /\ [][Next]_vars

\* A cluster that holds cluster-scoped objects only: no group is ever made, and
\* ReconcileGroup has nothing to do.
ClusterInit ==
    InitWith([World(ClusterNames, LabelShapes, {ResourcesInOrder, ResourcesReversed},
                    {<<"ns1", "ns2">>}) EXCEPT !.recoverable = BOOLEAN], {1}, {NoProbe})

ClusterNext ==
    \/ Select
    \/ DiscoveryFails
    \/ Discover
    \/ ProcessResource
    \/ WatchNamespacesFails
    \/ GetWatchNamespaces
    \/ GroupAppObjects
    \/ ReturnError
    \/ HandleResourceDeletions

ClusterSpec == ClusterInit /\ [][ClusterNext]_vars

\* The cluster of Init, with the history of one of its identities kept.
HistInit ==
    InitWith(World(MainNames, LabelShapes,
                   {<<APIResource("Node"), APIResource("Deployment")>>},
                   {<<"ns1", "ns2">>}), {1}, KeysOf(MainNames))

HistSpec == HistInit /\ [][Next]_vars

\* A cluster whose lists hold the first n of MaxItems objects, which keep their
\* revision and convert, asked for pages of one to MaxItems objects
\* (getListLimit).
PageInit ==
    InitWith([World(PageNames, PageShapes,
                    {<<APIResource("Node"), APIResource("Deployment")>>}, {<<"ns1">>})
                EXCEPT !.revisions = {1}, !.convertible = {TRUE},
                       !.verdicts = {"ObjectValid", EvalError},
                       !.together = [s \in Scopes |->
                                       {1..n : n \in 0..Cardinality(PageNames[s])}]],
             1..MaxItems, {NoProbe})

PageSpec == PageInit /\ [][Next]_vars

\* -------------------------------------------------- the cache by itself
\* The objects the calls are made with: two identities, at every revision.
CacheObjects ==
    {Object("Node", "", n, rev, NoLabel, NoLabel, TRUE) : n \in {1, 2}, rev \in Revisions}

Ret(op, obj, result, val) ==
    [op |-> op, key |-> newValidationKey(obj), version |-> obj.resourceVersion,
     result |-> result, val |-> val]

RestOfReconciler ==
    <<pc, ctxDone, listLimit, world, currentObjects, watchNamespaces, PassLocals,
      calls, attempted, probe, hist>>

CallStore ==
    \E obj \in CacheObjects, outcome \in Outcomes \cup {NoOutcome} :
       /\ objectValidationCache' = store(objectValidationCache, obj, outcome)
       /\ ret' = Ret("store", obj, TRUE, newValidationResource(obj.resourceVersion,
                                                                obj.uid, outcome))
       /\ UNCHANGED RestOfReconciler

CallRemove ==
    \E obj \in CacheObjects :
       /\ objectValidationCache' = remove(objectValidationCache, obj)
       /\ ret' = Ret("remove", obj, TRUE, ZeroResource)
       /\ UNCHANGED RestOfReconciler

CallRemoveKey ==
    \E obj \in CacheObjects :
       /\ objectValidationCache' = removeKey(objectValidationCache, newValidationKey(obj))
       /\ ret' = Ret("removeKey", obj, TRUE, ZeroResource)
       /\ UNCHANGED RestOfReconciler

CallDrain ==
    /\ objectValidationCache' = drain(objectValidationCache)
    /\ ret' = [NoRet EXCEPT !.op = "drain"]
    /\ UNCHANGED RestOfReconciler

CallHas ==
    \E obj \in CacheObjects :
       /\ ret' = Ret("has", obj, has(objectValidationCache, newValidationKey(obj)),
                     ZeroResource)
       /\ UNCHANGED <<objectValidationCache, RestOfReconciler>>

CallRetrieve ==
    \E obj \in CacheObjects :
       LET got == retrieve(objectValidationCache, obj)
       IN /\ ret' = Ret("retrieve", obj, got.exists, got.val)
          /\ UNCHANGED <<objectValidationCache, RestOfReconciler>>

CallObjectAlreadyValidated ==
    \E obj \in CacheObjects :
       LET chk == objectAlreadyValidated(objectValidationCache, obj)
       IN /\ objectValidationCache' = chk.vc
          /\ ret' = Ret("objectAlreadyValidated", obj, chk.result,
                        retrieve(objectValidationCache, obj).val)
          /\ UNCHANGED RestOfReconciler

CacheNext ==
    \/ CallStore
    \/ CallRemove
    \/ CallRemoveKey
    \/ CallDrain
    \/ CallHas
    \/ CallRetrieve
    \/ CallObjectAlreadyValidated

\* newValidationCache, and any sequence of calls on it.
CacheSpec == Init /\ [][CacheNext]_vars

\* ------------------------------------------------------------- properties
\* C6: objectAlreadyValidated returns false and changes nothing when the cache
\* has no entry for the identity; returns false and removes exactly that
\* identity's entry when the stored revision differs from the object's; returns
\* true and changes nothing when the stored revision is the object's.  In all
\* three cases the entries of every other identity are unchanged.
C6_Step ==
    ret'.op = "objectAlreadyValidated" =>
       LET k == ret'.key
           v == ret'.version
           before == objectValidationCache
           after == objectValidationCache'
       IN /\ k \notin DOMAIN before => ret'.result = FALSE /\ after = before
          /\ (k \in DOMAIN before /\ before[k].version # v) =>
                ret'.result = FALSE /\ DOMAIN after = (DOMAIN before) \ {k}
          /\ (k \in DOMAIN before /\ before[k].version = v) =>
                ret'.result = TRUE /\ after = before
          /\ \A j \in (DOMAIN before) \ {k} : j \in DOMAIN after /\ after[j] = before[j]
          /\ DOMAIN after \subseteq DOMAIN before

C6_ObjectAlreadyValidated == [][C6_Step]_vars

\* The call found an entry of another revision and removed it, and the entry of
\* another identity is in the cache.
C6_Witness ==
    /\ ret.op = "objectAlreadyValidated"
    /\ ret.result = FALSE
    /\ ret.val.version \notin {0, ret.version}
    /\ ret.key \notin DOMAIN objectValidationCache
    /\ objectValidationCache # newValidationCache

\* C4: currentObjects (LiveSet) is empty at the start of every pass: it is
\* drained at the end of every pass, whether the pass returned an error or not.
C4_LiveSetEmptyAtPassStart ==
    pc = "reconcileEverything" => currentObjects = newValidationCache

\* The keys of a sequence of records that have a key.
KeysIn(seq) == {seq[i].key : i \in 1..Len(seq)}

\* Whether a step that made the calls c met a failure: of a list request, of a
\* conversion or of an evaluation.
StepFailed(c) ==
    \/ \E i \in 1..Len(c.lists) : ~c.lists[i].ok
    \/ c.conv # <<>>
    \/ \E i \in 1..Len(c.evals) : c.evals[i].result = EvalError

\* The cluster-scoped kinds of a list of resources.
ClusterKindsOf(resources) ==
    {resources[i].Kind : i \in {j \in 1..Len(resources) : ~resources[j].Namespaced}}

IsPrefix(s, t) == Len(s) <= Len(t) /\ SubSeq(t, 1, Len(s)) = s

\* C7: a listing or evaluation failure for one cluster-scoped kind does not
\* stop the pass from listing and evaluating every other cluster-scoped kind,
\* before or after it; the pass returns the aggregated error, and the entries
\* stored for the other kinds during the pass are in the cache after the pass.
\* Step by step: whatever errors were collected, the turn of a cluster-scoped
\* kind requests its list and reconciles every item of it unless the turn itself
\* fails, appends its own failure to the errors, leaves the entries of the other
\* kinds alone and goes on to the next resource; when the loop ends every
\* cluster-scoped kind of the resources has been listed; no later step of the
\* pass drops an error; and a pass that collected an error returns
\* "processing all resources" and leaves the cache as it is.
C7_Step ==
    /\ (pc = "processAllResources" /\ ~apiResources[idx].Namespaced) =>
          LET kind == apiResources[idx].Kind
          IN /\ \E i \in 1..Len(calls'.lists) : calls'.lists[i].kind = kind \o "List"
             /\ <<kind, "">> \in attempted'
             /\ ~StepFailed(calls') =>
                   /\ KeysIn(calls'.seen) = KeysIn(calls'.served)
                   /\ finalErr' = finalErr
             /\ StepFailed(calls') => finalErr' = Append(finalErr, kind)
             /\ \A k \in DOMAIN objectValidationCache :
                   k.kind # kind =>
                      /\ k \in DOMAIN objectValidationCache'
                      /\ objectValidationCache'[k] = objectValidationCache[k]
             /\ pc' \in {"processAllResources", "processNamespacedResources"}
    /\ (pc = "processAllResources" /\ pc' # "processAllResources") =>
          /\ pc' = "processNamespacedResources"
          /\ \A kind \in ClusterKindsOf(apiResources) : <<kind, "">> \in attempted'
    /\ pc \in {"processAllResources", "processNamespacedResources", "groupAppObjects",
               "reconcileGroupOfObjects"} => IsPrefix(finalErr, finalErr')
    /\ (pc = "return" /\ finalErr # <<>>) =>
          /\ calls'.returned = "processing all resources"
          /\ objectValidationCache' = objectValidationCache

C7_FailureIsolation == [][C7_Step]_vars

\* The list of ClusterRole failed, and then the Node was listed, evaluated and
\* its outcome stored.
C7_Witness ==
    /\ finalErr = <<"ClusterRole">>
    /\ \E i \in 1..Len(calls.evals) :
          /\ calls.evals[i].result \in Outcomes
          /\ calls.evals[i].objs[1].key = KeyOf("Node", "", 1)
          /\ KeyOf("Node", "", 1) \in DOMAIN objectValidationCache
          /\ objectValidationCache[KeyOf("Node", "", 1)].outcome = calls.evals[i].result

\* The entry store makes for an object seen at a revision, with an outcome.
EntryOf(seen, outcome) ==
    newValidationResource(seen.version,
                          ObjUID(seen.key.kind, seen.key.namespace, seen.key.name),
                          outcome)

\* What C9 says of a step of reconcileGroupOfObjects on a group none of whose
\* objects has an entry: one batch call with all the objects of the group and
\* the namespace's UID, and on success one new entry per object, at its
\* revision, all with the outcome returned.
C9_OneBatchCall ==
    LET seen == calls'.seen
    IN /\ Len(calls'.evals) = 1
       /\ calls'.evals[1].fn = "RunValidationsForObjects"
       /\ calls'.evals[1].objs = seen
       /\ calls'.evals[1].namespaceUID = NsUID(Head(nsQueue).name)
       /\ calls'.evals[1].result \in Outcomes =>
             /\ DOMAIN objectValidationCache' =
                   (DOMAIN objectValidationCache) \cup KeysIn(seen)
             /\ \A i \in 1..Len(seen) :
                   objectValidationCache'[seen[i].key] =
                      EntryOf(seen[i], calls'.evals[1].result)
             /\ \A j \in DOMAIN objectValidationCache :
                   objectValidationCache'[j] = objectValidationCache[j]
       /\ calls'.evals[1].result = EvalError =>
             objectValidationCache' = objectValidationCache

\* A step of reconcileGroupOfObjects on a group none of whose objects has an entry.
C9_Case ==
    /\ pc = "reconcileGroupOfObjects"
    /\ KeysIn(calls'.seen) \cap DOMAIN objectValidationCache = {}

\* C9 as stated: for a group of k objects sharing an app label, none of which
\* has an entry in objectValidationCache, reconcileGroupOfObjects makes exactly
\* one batch evaluation call, with all k objects and the namespace's UID, and on
\* success the cache gains exactly k entries, one per object at its revision,
\* all with the outcome returned.
C9_AsStated == [][C9_Case => C9_OneBatchCall]_vars

\* C9, amended: the same, provided unstructuredToTyped succeeds for every object
\* of the group; when it fails for one of them no evaluation call is made and
\* the cache gains no entry.
C9_BatchOfUncached ==
    [][C9_Case =>
         IF calls'.conv = <<>>
         THEN C9_OneBatchCall
         ELSE /\ calls'.evals = <<>>
              /\ objectValidationCache' = objectValidationCache]_vars

\* One batch call was made with two objects, and the cache holds the outcome
\* it returned for both, and nothing else.
C9_Witness ==
    /\ Len(calls.evals) = 1
    /\ calls.evals[1].fn = "RunValidationsForObjects"
    /\ Len(calls.evals[1].objs) = 2
    /\ calls.evals[1].result \in Outcomes
    /\ DOMAIN objectValidationCache = KeysIn(calls.evals[1].objs)
    /\ \A k \in DOMAIN objectValidationCache :
          objectValidationCache[k].outcome = calls.evals[1].result

\* The identities of the objects of the groups.
GroupedKeys(related) ==
    UNION {{newValidationKey(related[l][i]) : i \in 1..Len(related[l])} :
             l \in DOMAIN related}

\* The identities the evaluation calls were given.
EvaluatedKeys(evals) == UNION {KeysIn(evals[i].objs) : i \in 1..Len(evals)}

\* C10: a namespace-scoped object for which neither metadata.labels.app nor
\* spec.selector.matchLabels.app resolves is never recorded in currentObjects
\* and never passed to an evaluation entry point in that pass, and its exclusion
\* raises no error: the other objects of the namespace are grouped and processed.
\* Step by step: groupAppObjects, when its lists are read without failure,
\* returns no error, does not end the loop over the namespaces, puts in the groups every listed object that has a label
\* and none that has not, and records and evaluates nothing itself; the groups
\* hold labelled objects only; and reconcileGroupOfObjects records in
\* currentObjects, and passes to RunValidationsForObjects, objects of the
\* groups only.
C10_Step ==
    /\ pc = "groupAppObjects" =>
          /\ (\A i \in 1..Len(calls'.lists) : calls'.lists[i].ok) =>
                /\ finalErr' = finalErr
                /\ pc' = "return" => Len(nsQueue) <= 1
                /\ \A i \in 1..Len(calls'.served) :
                      calls'.served[i].labelled <=>
                         calls'.served[i].key \in GroupedKeys(relatedObjects')
          /\ currentObjects' = currentObjects
          /\ objectValidationCache' = objectValidationCache
          /\ calls'.seen = <<>>
          /\ calls'.evals = <<>>
    /\ pc = "reconcileGroupOfObjects" =>
          /\ KeysIn(calls'.seen) \subseteq GroupedKeys(relatedObjects)
          /\ EvaluatedKeys(calls'.evals) \subseteq GroupedKeys(relatedObjects)
          /\ DOMAIN currentObjects' = (DOMAIN currentObjects) \cup KeysIn(calls'.seen)
    /\ \A l \in DOMAIN relatedObjects :
          \A i \in 1..Len(relatedObjects[l]) : Served(relatedObjects[l][i]).labelled

C10_UnlabelledExcluded == [][C10_Step]_vars

\* groupAppObjects listed an object with no label and one with a label: it
\* returned no error, and the labelled one is in a group to reconcile.
C10_Witness ==
    /\ pc = "reconcileGroupOfObjects"
    /\ finalErr = <<>>
    /\ \E i, j \in 1..Len(calls.served) :
          /\ ~calls.served[i].labelled
          /\ calls.served[i].key \notin GroupedKeys(relatedObjects)
          /\ calls.served[j].labelled
          /\ calls.served[j].key \in GroupedKeys(relatedObjects)

\* The probe was recorded in currentObjects in this pass and in the pass before,
\* at the same revision.
SameRevisionTwice == hist.prevObs # 0 /\ hist.curObs = hist.prevObs

\* C1 as stated: for an object recorded in two consecutive passes with the same
\* identity and the same revision, RunValidations / RunValidationsForObjects is
\* called for that identity at most once in total across the two passes.
C1_AsStated == SameRevisionTwice => hist.prevCalls + hist.curCalls <= 1

\* C1, amended: for such an object the evaluation is called at most once in
\* each of the two passes, and not at all in the second when the call of the
\* first returned an outcome; a call that returned an error stores nothing, and
\* the evaluation is called again in the second pass.
C1_AtMostOnceUnlessFailed ==
    SameRevisionTwice =>
       /\ hist.prevCalls <= 1
       /\ hist.curCalls <= 1
       /\ hist.prevCalls + hist.curCalls = 2 => ~hist.prevOk
       /\ (hist.prevCalls = 1 /\ hist.prevOk) => hist.curCalls = 0

\* Two passes are over: the first evaluated the probe and stored the outcome,
\* the second recorded it at the same revision and did not evaluate it.
C1_Witness ==
    /\ pc = "select"
    /\ SameRevisionTwice
    /\ hist.prevCalls = 1
    /\ hist.prevOk
    /\ hist.curCalls = 0
    /\ probe \in DOMAIN objectValidationCache
    /\ objectValidationCache[probe].version = hist.curObs

\* A DeleteMetrics call was made for the probe by the step.
Signalled == \E i \in 1..Len(calls'.deletes) : calls'.deletes[i].key = probe

\* C2: an identity for which an outcome was stored is never lost: if the object
\* then disappears from all lists and the passes complete without error, a
\* DeleteMetrics call is made for it, whatever revision changes, evaluation
\* failures or conversion failures came between.  Stated on the reclaim step of
\* a pass without error in which the identity was in no list and which did not
\* start with it in currentObjects: if an outcome was stored for it and no
\* DeleteMetrics call was made since, the step makes one.  (When it does not,
\* the identity is in neither cache, and no later pass that does not list the
\* object can make the call.)
C2_NeverLost ==
    [][(/\ pc = "return"
        /\ finalErr = <<>>
        /\ hist.tracked
        /\ hist.curObs = 0
        /\ probe \notin DOMAIN currentObjects) => Signalled]_vars

\* C3: an identity that is in objectValidationCache at the end of pass N and is
\* not recorded in currentObjects during pass N+1 is evicted in pass N+1 and
\* causes exactly one DeleteMetrics call, with the uid of its entry and the
\* namespace's UID.  Stated for a pass N+1 that returns no error, whose reclaim
\* step runs: an identity not recorded during the pass has the entry it had at
\* the end of pass N.
C3_ReclaimedInNextPass ==
    [][(/\ pc = "return"
        /\ finalErr = <<>>
        /\ hist.curObs = 0
        /\ probe \in DOMAIN objectValidationCache) =>
          /\ probe \notin DOMAIN objectValidationCache'
          /\ Cardinality({i \in 1..Len(calls'.deletes) :
                            calls'.deletes[i].key = probe}) = 1
          /\ \A i \in 1..Len(calls'.deletes) :
                calls'.deletes[i].key = probe =>
                   /\ calls'.deletes[i].labels.UID = objectValidationCache[probe].uid
                   /\ calls'.deletes[i].labels.NamespaceUID =
                         getNamespaceUID(watchNamespaces, probe.namespace)]_vars

\* The evaluation calls of the step that were given the identity k.
CallsFor(k) == {i \in 1..Len(calls'.evals) : k \in KeysIn(calls'.evals[i].objs)}

\* The step records an object whose entry in objectValidationCache has another
\* revision than the object: seen is the record of it in calls'.seen.
StaleEntry(seen) ==
    /\ seen.key \in DOMAIN objectValidationCache
    /\ objectValidationCache[seen.key].version # seen.version

\* The entry is evicted, one evaluation call is made for the object, and the
\* cache holds the new revision and the outcome when the call returns one (and
\* no entry when it returns an error).
Reevaluated(seen) ==
    /\ Cardinality(CallsFor(seen.key)) = 1
    /\ \A i \in CallsFor(seen.key) :
          IF calls'.evals[i].result \in Outcomes
          THEN /\ seen.key \in DOMAIN objectValidationCache'
               /\ objectValidationCache'[seen.key] = EntryOf(seen, calls'.evals[i].result)
          ELSE seen.key \notin DOMAIN objectValidationCache'

\* unstructuredToTyped failed in the step for the object, or, in
\* reconcileGroupOfObjects, for an object of its group.
ConversionFailed(seen) ==
    IF pc = "reconcileGroupOfObjects"
    THEN calls'.conv # <<>>
    ELSE seen.key \in KeysIn(calls'.conv)

\* C5 as stated: when an object is recorded at another revision than the one
\* of its entry, the entry is evicted by objectAlreadyValidated, a new
\* evaluation is performed for it, and after a successful evaluation the cache
\* holds for the identity exactly the new revision and the new outcome.
C5_AsStated ==
    [][\A i \in 1..Len(calls'.seen) :
          StaleEntry(calls'.seen[i]) => Reevaluated(calls'.seen[i])]_vars

\* C5, amended: the same, unless unstructuredToTyped fails for the object (or,
\* for a namespace-scoped object, for an object of its group): then the entry
\* is evicted all the same, no evaluation is made for it and the identity is
\* left without an entry.
C5_RevisionChange ==
    [][\A i \in 1..Len(calls'.seen) :
          StaleEntry(calls'.seen[i]) =>
             IF ConversionFailed(calls'.seen[i])
             THEN /\ CallsFor(calls'.seen[i].key) = {}
                  /\ calls'.seen[i].key \notin DOMAIN objectValidationCache'
             ELSE Reevaluated(calls'.seen[i])]_vars

\* The probe was evaluated and stored at revision 1 in the pass before, and in
\* this pass it was recorded at revision 2, evaluated again, and the cache
\* holds revision 2 and the outcome of this evaluation.
C5_Witness ==
    /\ hist.prevObs = 1
    /\ hist.prevCalls = 1
    /\ hist.prevOk
    /\ hist.curObs = 2
    /\ \E i \in 1..Len(calls.evals) :
          /\ probe \in KeysIn(calls.evals[i].objs)
          /\ calls.evals[i].result \in Outcomes
          /\ probe \in DOMAIN objectValidationCache
          /\ objectValidationCache[probe].version = 2
          /\ objectValidationCache[probe].outcome = calls.evals[i].result

\* The list requests of a step chain their tokens: the first request for a kind
\* carries the empty token, and every other request follows a page that
\* returned a token, and carries that token.
TokensChained(lists) ==
    \A i \in 1..Len(lists) :
       /\ (i = 1 \/ lists[i - 1].kind # lists[i].kind) => lists[i].continue = EmptyToken
       /\ (i > 1 /\ lists[i - 1].kind = lists[i].kind) =>
             /\ lists[i - 1].ok
             /\ lists[i - 1].next # EmptyToken
             /\ lists[i].continue = lists[i - 1].next

KeySeq(seq) == [i \in 1..Len(seq) |-> seq[i].key]

\* C8: for a list of n items served in pages of any size with continuation
\* tokens, the paginated listing issues page requests, each carrying the token
\* returned by the page before it, until a page returns the empty token, and
\* (when no reconcile fails) reconciles each of the n items exactly once in the
\* pass, none duplicated or omitted, whatever the page boundaries are.  Step by
\* step: the requests chain their tokens; no item is recorded twice; and when
\* no request and no reconcile fails, the last page returned the empty token,
\* paginatedList reconciled the items the server holds, each once and in
\* order, and groupAppObjects put each of them in a group once.
C8_Step ==
    /\ TokensChained(calls'.lists)
    /\ Cardinality(KeysIn(calls'.seen)) = Len(calls'.seen)
    /\ (calls'.lists # <<>> /\ ~StepFailed(calls')) =>
          /\ calls'.lists[Len(calls'.lists)].next = EmptyToken
          /\ pc = "processAllResources" => KeySeq(calls'.seen) = KeySeq(calls'.served)
          /\ pc = "groupAppObjects" =>
                /\ GroupedKeys(relatedObjects') = KeysIn(calls'.served)
                /\ \A l \in DOMAIN relatedObjects' :
                      Cardinality(GroupedKeys([k \in {l} |-> relatedObjects'[l]])) =
                         Len(relatedObjects'[l])
                /\ \A l, m \in DOMAIN relatedObjects' :
                      l # m => GroupedKeys([k \in {l} |-> relatedObjects'[l]])
                                  \cap GroupedKeys([k \in {m} |-> relatedObjects'[m]]) = {}

C8_Pagination == [][C8_Step]_vars

\* Three items were read in two pages of at most two, the second request
\* carrying the token of the first page, and each was reconciled once.
C8_Witness ==
    /\ listLimit = 2
    /\ Len(calls.lists) = 2
    /\ calls.lists[1].ok /\ calls.lists[2].ok
    /\ calls.lists[2].continue = calls.lists[1].next
    /\ calls.lists[2].continue # EmptyToken
    /\ Len(calls.served) = 3
    /\ KeySeq(calls.seen) = KeySeq(calls.served)

\* C11: listing a cluster-scoped kind is retried with bounded exponential
\* backoff: when a list request for the kind fails and a later attempt would
\* be answered, processObjectInstances lists the kind again in the same pass
\* and returns no error.  Step by step: a turn of processAllResources whose
\* list request failed recoverably ends with the kind listed to its last page
\* and adds nothing to the aggregate error.
C11_Step ==
    (pc = "processAllResources" /\ calls'.recoverable) =>
       /\ finalErr' = finalErr
       /\ calls'.lists[Len(calls'.lists)].ok
       /\ calls'.lists[Len(calls'.lists)].next = EmptyToken

C11_RetriedUntilListed == [][C11_Step]_vars

\* The ways a pass returns an error to Start.
PassErrors == {"retrieving resources to reconcile", "processing all resources"}

\* C12: Start never stops because a pass failed: after any pass error it
\* begins another pass; it returns only when the cancellation is observed at
\* the top of a loop iteration; and once the context is cancelled and the pass
\* in flight has returned, no further pass is started.  Step by step: Start
\* returns from the top of its loop only, and under a cancelled context only;
\* a pass that ends, with an error or without, leads to the top of the loop;
\* at the top of the loop with the context not cancelled the next pass can
\* start, and it is what happens next unless the context is cancelled; under
\* a cancelled context no pass starts, and the top of the loop returns.
C12_Step ==
    /\ pc' = "returned" => (pc = "select" /\ ctxDone)
    /\ calls'.returned \in PassErrors => pc' = "select"
    /\ (pc = "select" /\ ~ctxDone) =>
          /\ ENABLED Select
          /\ \/ pc' = "reconcileEverything" /\ ~ctxDone'
             \/ pc' = "select" /\ ctxDone' /\ calls' = calls
    /\ ctxDone => pc' # "reconcileEverything"
    /\ (pc = "select" /\ ctxDone) => pc' = "returned"

C12_StartLoop == [][C12_Step]_vars

\* The context was cancelled during a pass that then returned an error, and
\* Start is at the top of its loop, about to return.
C12_Witness ==
    /\ pc = "select"
    /\ ctxDone
    /\ calls.returned \in PassErrors
    /\ currentObjects # newValidationCache

\* The namespaces of a list of namespaces.
NamesOf(queue) == {queue[i].name : i \in 1..Len(queue)}

\* The entries of vc for the identities that the step did not record.
Untouched(vc, seen) == [k \in (DOMAIN vc) \ KeysIn(seen) |-> vc[k]]

\* processNamespacedResources is in its loop over the namespaces.
InNamespaceLoop == pc \in {"groupAppObjects", "reconcileGroupOfObjects"}

\* C13: in namespaced processing, an error while listing/grouping or
\* evaluating the objects of one namespace stops the namespace loop: no
\* namespace after it in the watched order is listed, recorded in
\* currentObjects or evaluated in that pass, and the entries stored earlier in
\* the pass remain.  Step by step: the loop lists, records and evaluates in
\* the namespace at the head of the namespaces left only, and the namespaces
\* after it have not been listed in the pass; a step of the loop that returns
\* an error leaves the loop with the namespaces left as they were, keeping
\* every entry of objectValidationCache but those of the objects it recorded
\* itself; and what follows makes no list request, records nothing and
\* evaluates nothing before the pass is over.
C13_Step ==
    /\ InNamespaceLoop =>
          /\ \A i \in 1..Len(calls'.lists) : calls'.lists[i].namespace = Head(nsQueue).name
          /\ \A i \in 1..Len(calls'.seen) : calls'.seen[i].key.namespace = Head(nsQueue).name
          /\ \A i \in 1..Len(calls'.evals) :
                calls'.evals[i].namespaceUID = NsUID(Head(nsQueue).name)
          /\ \A s \in attempted' : s[2] \notin NamesOf(Tail(nsQueue))
    /\ (InNamespaceLoop /\ finalErr' # finalErr) =>
          /\ pc' = "return"
          /\ nsQueue' = nsQueue
          /\ Untouched(objectValidationCache', calls'.seen)
                = Untouched(objectValidationCache, calls'.seen)
    /\ (pc = "return" /\ finalErr # <<>>) =>
          /\ pc' = "select"
          /\ calls'.lists = <<>> /\ calls'.seen = <<>> /\ calls'.evals = <<>>
          /\ calls'.deletes = <<>>
          /\ objectValidationCache' = objectValidationCache
          /\ currentObjects' = currentObjects

C13_NamespaceLoopStops == [][C13_Step]_vars

\* The evaluation of a group of ns1 failed after the Node was evaluated and
\* stored: the pass is about to return, ns2 was not listed and the Node's entry
\* is still there.
C13_Witness ==
    /\ pc = "return"
    /\ finalErr = <<"namespace scoped resources">>
    /\ Len(nsQueue) = 2
    /\ Head(nsQueue).name = "ns1"
    /\ \E i \in 1..Len(calls.evals) : calls.evals[i].result = EvalError
    /\ <<"Deployment", "ns1">> \in attempted
    /\ <<"Deployment", "ns2">> \notin attempted
    /\ KeyOf("Node", "", 1) \in DOMAIN objectValidationCache

\* getWatchNamespaces failed in the step.
WatchNamespacesFailed ==
    /\ pc = "processNamespacedResources"
    /\ finalErr' # finalErr

\* C14: when fetching the watched namespaces fails, no namespace-scoped
\* object is listed, recorded in currentObjects or evaluated in that pass,
\* every cluster-scoped kind has still been attempted, and the entries stored
\* by cluster-scoped processing in that pass are not rolled back.  Step by
\* step: the step in which getWatchNamespaces fails makes no call and changes
\* neither cache; before it the pass made a list request for every
\* cluster-scoped kind of the discovery and for nothing else; and it leads to
\* the return of the pass, which makes no call and changes neither cache.
C14_Step ==
    /\ WatchNamespacesFailed =>
          /\ pc' = "return"
          /\ nsQueue' = <<>> /\ relatedObjects' = NoGroups
          /\ calls' = NoCalls
          /\ objectValidationCache' = objectValidationCache
          /\ currentObjects' = currentObjects
          /\ attempted' = {<<k, "">> : k \in ClusterKindsOf(apiResources)}
    /\ (pc = "return" /\ ~watchNamespaces.set) =>
          /\ \A s \in attempted : s[2] = ""
          /\ pc' = "select"
          /\ calls' = [NoCalls EXCEPT !.returned = "processing all resources"]
          /\ objectValidationCache' = objectValidationCache
          /\ currentObjects' = currentObjects

C14_WatchNamespacesFail == [][C14_Step]_vars

\* getWatchNamespaces failed after the ClusterRole and the Node were listed and
\* the Node's outcome stored: the pass is about to return with that one error.
C14_Witness ==
    /\ pc = "return"
    /\ finalErr = <<"namespace scoped resources">>
    /\ ~watchNamespaces.set
    /\ calls = NoCalls
    /\ attempted = {<<"ClusterRole", "">>, <<"Node", "">>}
    /\ KeyOf("Node", "", 1) \in DOMAIN objectValidationCache
    /\ KeyOf("Node", "", 1) \in DOMAIN currentObjects

\* The discovery query failed in the step.
DiscoveryFailed == calls'.returned = "retrieving resources to reconcile"

\* C15: when the discovery query fails, the pass is aborted before anything
\* else happens: objectValidationCache and currentObjects are unchanged, the
\* cache of watched namespaces is not reset, no list, evaluation or
\* DeleteMetrics call is made, and the next loop iteration starts a new pass
\* with a new discovery query.  Step by step: the step in which the discovery
\* fails is the first of its pass, changes nothing but the position of Start,
\* which is back at the top of its loop, and makes no call; from there the
\* next pass starts (unless the context is cancelled), and the first step of
\* a pass is the answer of the discovery query, or its failure.
C15_Step ==
    /\ DiscoveryFailed =>
          /\ pc = "reconcileEverything" /\ pc' = "select"
          /\ objectValidationCache' = objectValidationCache
          /\ currentObjects' = currentObjects
          /\ watchNamespaces' = watchNamespaces
          /\ calls'.lists = <<>> /\ calls'.seen = <<>> /\ calls'.evals = <<>>
          /\ calls'.deletes = <<>>
          /\ attempted' = {}
          /\ UNCHANGED PassLocals
    /\ (pc = "select" /\ calls.returned = "retrieving resources to reconcile") =>
          /\ ENABLED Select
          /\ pc' = "reconcileEverything"
    /\ pc = "reconcileEverything" =>
          /\ ENABLED DiscoveryFails /\ ENABLED Discover
          /\ DiscoveryFailed \/ (apiResources' \in world.discovery /\ calls' = NoCalls)

C15_DiscoveryFails == [][C15_Step]_vars

\* The discovery failed in a pass that follows one that cached the watched
\* namespaces, stored an outcome and returned an error: the namespaces are
\* still cached and both caches still hold their entries.
C15_Witness ==
    /\ pc = "select"
    /\ calls.returned = "retrieving resources to reconcile"
    /\ watchNamespaces.set
    /\ objectValidationCache # newValidationCache
    /\ currentObjects # newValidationCache

\* Every entry of vc is an entry of wc.
EntriesWithin(vc, wc) ==
    \A k \in DOMAIN vc : k \in DOMAIN wc /\ wc[k] = vc[k]

\* C16: in reconcileGroupOfObjects, when resolving or converting the type of
\* an object of the group that needs evaluation fails, the group is aborted
\* with an error: RunValidationsForObjects is not called for the group, no
\* entry is stored in objectValidationCache for any object of the group (those
\* that converted included), and every object of the group has been recorded
\* in currentObjects.  Step by step: a step of reconcileGroupOfObjects in which
\* a conversion failed returns an error, makes no evaluation call, creates and
\* changes no entry of objectValidationCache, leaves none for the object that
\* did not convert, and has recorded every object of one of the groups in
\* currentObjects at its revision.
C16_Step ==
    (pc = "reconcileGroupOfObjects" /\ calls'.conv # <<>>) =>
       /\ finalErr' = Append(finalErr, "namespace scoped resources")
       /\ pc' = "return"
       /\ calls'.evals = <<>>
       /\ EntriesWithin(objectValidationCache', objectValidationCache)
       /\ \A i \in 1..Len(calls'.conv) :
             calls'.conv[i].key \notin DOMAIN objectValidationCache'
       /\ \E label \in DOMAIN relatedObjects :
             /\ calls'.seen = [i \in 1..Len(relatedObjects[label]) |->
                                 Seen(relatedObjects[label][i])]
             /\ \A i \in 1..Len(relatedObjects[label]) :
                   LET o == relatedObjects[label][i]
                   IN /\ newValidationKey(o) \in DOMAIN currentObjects'
                      /\ currentObjects'[newValidationKey(o)].version = o.resourceVersion

C16_ConversionAborts == [][C16_Step]_vars

\* A group of two Deployments, neither evaluated before: the first converted,
\* the second did not; no evaluation call was made, neither has an entry and
\* both are recorded in currentObjects.
C16_Witness ==
    /\ pc = "return"
    /\ Len(calls.seen) = 2
    /\ calls.conv = <<calls.seen[2]>>
    /\ calls.evals = <<>>
    /\ objectValidationCache = newValidationCache
    /\ KeysIn(calls.seen) \subseteq DOMAIN currentObjects

\* The entries of vc for the identities other than key.
Others(vc, key) == [k \in (DOMAIN vc) \ {key} |-> vc[k]]

\* C17: the basic operations of validationCache.  store leaves exactly one
\* entry for the identity, whose revision, owner and outcome are those of the
\* latest store (nothing of the prior entry is kept), and changes no other
\* identity; remove and removeKey leave no entry for the identity, change no
\* other, and change nothing when the identity is absent (so that a second
\* remove changes nothing); has and retrieve never change the cache, and
\* answer by the entry that is there; drain leaves the cache empty.
C17_Step ==
    LET vc == objectValidationCache
        wc == objectValidationCache'
        key == ret'.key
    IN /\ ret'.op = "store" =>
             /\ key \in DOMAIN wc
             /\ wc[key] = ret'.val
             /\ wc[key].version = ret'.version
             /\ wc[key].uid = ObjUID(key.kind, key.namespace, key.name)
             /\ Others(wc, key) = Others(vc, key)
       /\ ret'.op \in {"remove", "removeKey"} =>
             /\ key \notin DOMAIN wc
             /\ wc = Others(vc, key)
             /\ key \notin DOMAIN vc => wc = vc
       /\ ret'.op = "has" =>
             /\ wc = vc
             /\ ret'.result = (key \in DOMAIN vc)
       /\ ret'.op = "retrieve" =>
             /\ wc = vc
             /\ ret'.result = (key \in DOMAIN vc)
             /\ ret'.val = IF key \in DOMAIN vc THEN vc[key] ELSE ZeroResource
       /\ ret'.op = "drain" => wc = newValidationCache

C17_BasicOperations == [][C17_Step]_vars

\* A store at the last revision, with an outcome, while the other identity is
\* cached at the first revision: the entry is that of the store.
C17_Witness ==
    /\ ret.op = "store"
    /\ ret.version = MaxRev
    /\ ret.val.outcome \in Outcomes
    /\ objectValidationCache[ret.key] = ret.val
    /\ \E k \in (DOMAIN objectValidationCache) \ {ret.key} :
          objectValidationCache[k].version = 1

\* The step is part of a pass, before its return.
InPass ==
    pc \in {"processAllResources", "processNamespacedResources", "groupAppObjects",
            "reconcileGroupOfObjects"}

\* C18: in any pass in which processing returns an error (a cluster-scoped
\* kind's failure, the failure of the namespace list, a namespaced failure),
\* the reclaim step does not run: no DeleteMetrics call is made and no entry
\* of objectValidationCache is evicted for being absent from currentObjects,
\* so an object that could not be listed in a failed pass is not reported as
\* deleted by that pass.  Step by step: a failure in a step of a pass (or the
\* listing of a cluster-scoped kind given up under a cancelled context) is
\* added to the aggregate error, which stays until the pass returns; DeleteMetrics
\* is called only by the step that ends a pass without error; a pass that
\* returns an error returns without a call and without a change to either
\* cache; and outside the reclaim step an entry leaves objectValidationCache
\* only when the step recorded its object (at another revision).  The steps
\* are those of the reconciler: the cancellation of the context is not one.
C18_Step ==
    ctxDone' = ctxDone =>
       /\ (InPass
              /\ (StepFailed(calls') \/ (ctxDone /\ pc = "processAllResources"
                                          /\ namespacedResources' = namespacedResources))) =>
             finalErr' # finalErr
       /\ (InPass /\ finalErr # <<>>) => (finalErr' # <<>> /\ pc' # "select")
       /\ calls'.deletes # <<>> =>
             (pc = "return" /\ finalErr = <<>> /\ calls'.returned = "nil")
       /\ (pc = "return" /\ finalErr # <<>>) =>
             /\ calls' = [NoCalls EXCEPT !.returned = "processing all resources"]
             /\ objectValidationCache' = objectValidationCache
             /\ currentObjects' = currentObjects
       /\ ~(pc = "return" /\ finalErr = <<>>) =>
             \A k \in (DOMAIN objectValidationCache) \ (DOMAIN objectValidationCache') :
                \E i \in 1..Len(calls'.seen) :
                   /\ calls'.seen[i].key = k
                   /\ calls'.seen[i].version # objectValidationCache[k].version

C18_NoReclaimAfterError == [][C18_Step]_vars

\* A pass returned an error without reading the Node, whose entry of an
\* earlier pass is still in objectValidationCache although currentObjects does
\* not hold it.
C18_Witness ==
    /\ pc = "select"
    /\ calls.returned = "processing all resources"
    /\ KeyOf("Node", "", 1) \in DOMAIN objectValidationCache
    /\ KeyOf("Node", "", 1) \notin DOMAIN currentObjects

\* The evaluation call of the step that accounts for the entry of k in vc: it
\* included k at the revision of the entry and returned the outcome of the
\* entry, without error.
Evidence(vc, k) ==
    {i \in 1..Len(calls'.evals) :
        /\ calls'.evals[i].result \in Outcomes
        /\ calls'.evals[i].result = vc[k].outcome
        /\ \E j \in 1..Len(calls'.evals[i].objs) :
              /\ calls'.evals[i].objs[j].key = k
              /\ calls'.evals[i].objs[j].version = vc[k].version}

\* The identities whose evaluation failed in the step, or whose conversion did.
FailedKeys ==
    KeysIn(calls'.conv)
      \cup UNION {KeysIn(calls'.evals[i].objs) :
                    i \in {j \in 1..Len(calls'.evals) : calls'.evals[j].result = EvalError}}

\* C19: every entry of objectValidationCache is evidence of a successful
\* evaluation: for each entry there was an earlier evaluation call that
\* included its identity at exactly its revision and returned its outcome
\* without error; a failed evaluation or a failed conversion never creates or
\* updates an entry.  Step by step, from the empty cache of the construction:
\* an entry that a step creates or changes is accounted for by an evaluation
\* call of that step, and a step leaves no entry for an identity whose
\* conversion or evaluation failed in it.
C19_Step ==
    /\ \A k \in DOMAIN objectValidationCache' :
          (k \notin DOMAIN objectValidationCache
             \/ objectValidationCache'[k] # objectValidationCache[k])
          => Evidence(objectValidationCache', k) # {}
    /\ \A k \in FailedKeys : k \notin DOMAIN objectValidationCache'

C19_EntriesAreEvidence == [][C19_Step]_vars

\* The Node's outcome is cached from an earlier step, and the Deployment of ns1
\* was just evaluated at the last revision: its entry holds that revision and
\* the outcome the call returned.
C19_Witness ==
    /\ KeyOf("Node", "", 1) \in DOMAIN objectValidationCache
    /\ KeyOf("Deployment", "ns1", 1) \in DOMAIN objectValidationCache
    /\ objectValidationCache[KeyOf("Deployment", "ns1", 1)].version = MaxRev
    /\ Len(calls.evals) = 1
    /\ calls.evals[1].fn = "RunValidationsForObjects"
    /\ calls.evals[1].objs = <<[key |-> KeyOf("Deployment", "ns1", 1), version |-> MaxRev]>>
    /\ calls.evals[1].result = objectValidationCache[KeyOf("Deployment", "ns1", 1)].outcome

\* Every object the step recorded had an entry at its revision before the step.
AllAlreadyValidated ==
    \A i \in 1..Len(calls'.seen) :
       /\ calls'.seen[i].key \in DOMAIN objectValidationCache
       /\ objectValidationCache[calls'.seen[i].key].version = calls'.seen[i].version

\* C20: for an app-label group in which every object is already evaluated at
\* its current revision, reconcileGroupOfObjects still calls
\* RunValidationsForObjects exactly once, with an empty list of objects, and
\* stores nothing; so the number of batch calls in a pass is the number of
\* groups reached without a conversion error, however many objects need
\* evaluation.  Step by step: a step of reconcileGroupOfObjects records the
\* objects of one group and makes exactly one call of
\* RunValidationsForObjects, or none when a conversion failed; and when every
\* object of the group was already evaluated at its revision, no conversion
\* fails, the one call is given no object, and objectValidationCache is left
\* as it was.
C20_Step ==
    pc = "reconcileGroupOfObjects" =>
       /\ \E label \in DOMAIN relatedObjects :
             calls'.seen = [i \in 1..Len(relatedObjects[label]) |->
                              Seen(relatedObjects[label][i])]
       /\ Len(calls'.evals) = (IF calls'.conv = <<>> THEN 1 ELSE 0)
       /\ \A i \in 1..Len(calls'.evals) : calls'.evals[i].fn = "RunValidationsForObjects"
       /\ AllAlreadyValidated =>
             /\ calls'.conv = <<>>
             /\ calls'.evals[1].objs = <<>>
             /\ objectValidationCache' = objectValidationCache

C20_OneCallPerGroup == [][C20_Step]_vars

\* A group of two Deployments, both cached at their revisions, was reconciled:
\* RunValidationsForObjects was called once, with no object.
C20_Witness ==
    /\ Len(calls.seen) = 2
    /\ Len(calls.evals) = 1
    /\ calls.evals[1].fn = "RunValidationsForObjects"
    /\ calls.evals[1].objs = <<>>
    /\ \A i \in 1..2 :
          /\ calls.seen[i].key \in DOMAIN objectValidationCache
          /\ objectValidationCache[calls.seen[i].key].version = calls.seen[i].version

====
